---- MODULE Spec2Model ----
(***************************************************************************)
(* A model of the resolvers repository: the error normalizer toNestErrors  *)
(* with its helper isNameInFieldArray, the Joi error flattener             *)
(* parseErrorSchema, and the joiResolver adapter.                          *)
(*                                                                         *)
(* Strings that the code inspects character by character (field paths and  *)
(* field names) are sequences of one-character strings.  A JavaScript      *)
(* value is a flat tree: a function from key paths (sequences of property  *)
(* names, <<>> being the value itself) to nodes [kind, val].  Containers   *)
(* have kind "obj" or "arr"; everything else is a primitive with no        *)
(* children.                                                               *)
(***************************************************************************)
EXTENDS Naturals, Sequences, FiniteSets, TLC

VARIABLES
  \* toNestErrors, one iteration of its for..in loop per step
  errors,        \* the flat mapping, as <<path, record>> pairs in for..in order
  options,       \* the ResolverOptions: names, fields
  fieldErrors,   \* the tree being built
  idx,           \* the next entry of errors to process (Len(errors)+1: returned)
  \* parseErrorSchema, one reduce callback per step
  details,       \* error.details
  allCriteria,   \* validateAllFieldCriteria
  previous,      \* the accumulator of the reduce
  dIdx,          \* the next detail to reduce
  \* joiResolver
  mode,          \* resolverOptions.mode
  schema,        \* what the schema answers, per context passed to it
  schemaOptions, \* the caller's schemaOptions object, shared by all invocations
  calls,         \* the invocations of the resolver
  \* validateFieldsNatively
  native         \* the calls made to it so far, each with its errors argument

nestVars == <<errors, options, fieldErrors, idx>>
parseVars == <<details, allCriteria, previous, dIdx>>
resolverVars == <<mode, schema, schemaOptions, calls>>
vars == <<errors, options, fieldErrors, idx, details, allCriteria, previous, dIdx,
          mode, schema, schemaOptions, calls, native>>

(***************************************************************************)
(* Bounds                                                                  *)
(***************************************************************************)
MaxDepth == 2      \* segments of a field path
MaxKeys == 2       \* entries of the flat error mapping
MaxNames == 1      \* names the form has registered
WideDepth == 3     \* the same three, for the mappings that need three entries
WideKeys == 3
WideNames == 2
MaxDetails == 3    \* details of a validation error
NumCalls == 2      \* invocations of one resolver

Digits == {"0", "1"}
Segs == {"a", "0"}

(***************************************************************************)
(* Strings                                                                 *)
(***************************************************************************)
RECURSIVE Cat(_)
Cat(s) == IF s = <<>> THEN "" ELSE Head(s) \o Cat(Tail(s))

\* Array.prototype.join('.') over path segments that are strings themselves
RECURSIVE JoinDot(_)
JoinDot(segs) ==
  IF segs = <<>> THEN <<>>
  ELSE IF Len(segs) = 1 THEN segs[1]
  ELSE segs[1] \o <<".">> \o JoinDot(Tail(segs))

AllDigits(s) == \A i \in 1..Len(s) : s[i] \in Digits

\* an integer-like property name ("0", "1", "10"): for..in lists these first, ascending
IsIndexKey(s) == s # <<>> /\ AllDigits(s) /\ (Len(s) = 1 \/ s[1] # "0")

RECURSIVE NumVal(_)
NumVal(s) ==
  IF s = <<>> THEN 0
  ELSE 10 * NumVal(SubSeq(s, 1, Len(s) - 1)) + (IF s[Len(s)] = "1" THEN 1 ELSE 0)

(***************************************************************************)
(* JavaScript values as flat trees                                         *)
(***************************************************************************)
Prim(kind, val) == <<>> :> [kind |-> kind, val |-> val]
Undefined == Prim("undefined", "")
Str(s) == Prim("str", s)
EmptyObject == Prim("obj", "")

Function == Prim("function", "")

\* members every plain object inherits from Object.prototype (those the inputs use)
ObjectPrototypeNames ==
  { <<"v", "a", "l", "u", "e", "O", "f">>,
    <<"t", "o", "S", "t", "r", "i", "n", "g">>,
    <<"c", "o", "n", "s", "t", "r", "u", "c", "t", "o", "r">> }

IsPrefix(p, q) == Len(p) <= Len(q) /\ SubSeq(q, 1, Len(p)) = p

\* the value found at key path p of t (p must be in DOMAIN t)
Sub(t, p) ==
  [q \in {SubSeq(r, Len(p) + 1, Len(r)) : r \in {x \in DOMAIN t : IsPrefix(p, x)}}
     |-> t[p \o q]]

Prune(t, p) == [r \in {x \in DOMAIN t : ~IsPrefix(p, x)} |-> t[r]]

\* t with value v assigned at key path p, replacing whatever was there
Graft(t, p, v) ==
  LET kept == Prune(t, p)
  IN  [r \in DOMAIN kept \cup {p \o q : q \in DOMAIN v} |->
         IF IsPrefix(p, r) THEN v[SubSeq(r, Len(p) + 1, Len(r))] ELSE kept[r]]

IsContainer(t, p) == p \in DOMAIN t /\ t[p].kind \in {"obj", "arr"}
IsUndefined(v) == v[<<>>].kind = "undefined"

\* the property k of value v, undefined when v has none
Prop(v, k) == IF <<k>> \in DOMAIN v THEN Sub(v, <<k>>) ELSE Undefined

\* the own property names of a container
Keys(v) == {r[1] : r \in {x \in DOMAIN v : Len(x) = 1}}

\* Object.assign({}, v): a fresh plain object with v's own properties
\* (none when v is undefined)
AssignToEmpty(v) ==
  IF IsContainer(v, <<>>) THEN [v EXCEPT ![<<>>] = [kind |-> "obj", val |-> ""]]
  ELSE EmptyObject

(***************************************************************************)
(* react-hook-form's get and set                                           *)
(***************************************************************************)
\* isKey: /^\w*$/ .  Over the model's alphabet the non-word characters are
\* ".", "[" and "]".
isKey(s) == \A i \in 1..Len(s) : s[i] \notin {".", "[", "]"}

\* stringToPath: compact(input.replace(/["|']|\]/g, '').split(/\.|\[/))
RECURSIVE SplitPath(_, _, _)
SplitPath(s, cur, acc) ==
  LET flush == IF cur = <<>> THEN acc ELSE Append(acc, cur)
  IN  IF s = <<>> THEN flush
      ELSE IF Head(s) = "]" THEN SplitPath(Tail(s), cur, acc)
      ELSE IF Head(s) \in {".", "["} THEN SplitPath(Tail(s), <<>>, flush)
      ELSE SplitPath(Tail(s), Append(cur, Head(s)), acc)

stringToPath(s) == SplitPath(s, <<>>, <<>>)

PathKeys(path) == IF isKey(path) THEN <<path>> ELSE stringToPath(path)

KeyPath(keys) == [i \in 1..Len(keys) |-> Cat(keys[i])]

\* get(object, path): undefined for an empty path, else the value reached by
\* walking the keys.  (get's fallback to the literal property object[path]
\* finds nothing here: set never creates a property whose name holds a dot.)
get(object, path) ==
  IF path = <<>> THEN Undefined
  ELSE LET keys == PathKeys(path)
           p == KeyPath(keys)
       IN  IF p \in DOMAIN object THEN Sub(object, p)
           ELSE IF /\ keys # <<>>
                   /\ IsContainer(object, SubSeq(p, 1, Len(p) - 1))
                   /\ keys[Len(keys)] \in ObjectPrototypeNames
                THEN Function   \* inherited from Object.prototype
           ELSE Undefined

\* !isNaN(+key)
IsNumericKey(k) == AllDigits(k)

\* set(object, path, value): walks the keys, keeps each container on the way,
\* replaces anything else by [] (next key numeric) or {}, assigns at the end
RECURSIVE SetFrom(_, _, _, _)
SetFrom(object, keys, i, value) ==
  IF i > Len(keys) THEN object
  ELSE LET pre == KeyPath(SubSeq(keys, 1, i))
       IN  IF i = Len(keys) THEN Graft(object, pre, value)
           ELSE IF IsContainer(object, pre) THEN SetFrom(object, keys, i + 1, value)
           ELSE SetFrom(Graft(object, pre,
                              Prim(IF IsNumericKey(keys[i + 1]) THEN "arr" ELSE "obj", "")),
                        keys, i + 1, value)

set(object, path, value) == SetFrom(object, PathKeys(path), 1, value)

(***************************************************************************)
(* toNestErrors                                                            *)
(***************************************************************************)
escapeBrackets(input) == SelectSeq(input, LAMBDA c : c \notin {"[", "]"})

\* String.prototype.match of the pattern `^${pat}\.\d+`, pat spliced into the
\* regular expression unescaped: a "." of pat matches any character
MatchesArrayPattern(pat, s) ==
  /\ Len(s) >= Len(pat) + 2
  /\ \A i \in 1..Len(pat) : pat[i] = "." \/ pat[i] = s[i]
  /\ s[Len(pat) + 1] = "."
  /\ s[Len(pat) + 2] \in Digits

isNameInFieldArray(names, name) ==
  LET path == escapeBrackets(name)
  IN  \E n \in names : MatchesArrayPattern(path, escapeBrackets(n))

ErrorKeys(errs) == {errs[i][1] : i \in 1..Len(errs)}

\* options.names || Object.keys(errors)
NamesOrKeys(opts, errs) == IF opts.namesGiven THEN opts.names ELSE ErrorKeys(errs)

\* field && field.ref
FieldRef(field) == IF IsUndefined(field) THEN Undefined ELSE Prop(field, "ref")

\* a slip: the descriptor itself attached instead of its ref
WithRefWholeField(record, opts, path) == Graft(record, <<"ref">>, get(opts.fields, path))

\* Object.assign(errors[path] || {}, { ref: field && field.ref })
WithRef(record, opts, path) == Graft(record, <<"ref">>, FieldRef(get(opts.fields, path)))

\* a slip: the array bucket built from scratch, not from what the tree holds
NestOneFreshBucket(tree, errs, opts, path, record) ==
  LET error == WithRef(record, opts, path)
  IN  IF isNameInFieldArray(NamesOrKeys(opts, errs), path)
      THEN set(tree, path, set(EmptyObject, <<"r", "o", "o", "t">>, error))
      ELSE set(tree, path, error)

\* the body of the for..in loop, for the entry <<path, record>>
NestOne(tree, errs, opts, path, record) ==
  LET error == WithRef(record, opts, path)
  IN  IF isNameInFieldArray(NamesOrKeys(opts, errs), path)
      THEN LET fieldArrayErrors == set(AssignToEmpty(get(tree, path)), <<"r", "o", "o", "t">>, error)
           IN  set(tree, path, fieldArrayErrors)
      ELSE set(tree, path, error)

RECURSIVE NestFrom(_, _, _, _)
NestFrom(tree, errs, opts, i) ==
  IF i > Len(errs) THEN tree
  ELSE NestFrom(NestOne(tree, errs, opts, errs[i][1], errs[i][2]), errs, opts, i + 1)

toNestErrors(errs, opts) == NestFrom(EmptyObject, errs, opts, 1)

\* options.shouldUseNativeValidation && validateFieldsNatively(errors, options)
NativeCall(who, errs, opts) ==
  IF opts.shouldUseNativeValidation THEN <<[by |-> who, errors |-> errs]>> ELSE <<>>

(***************************************************************************)
(* parseErrorSchema and react-hook-form's appendErrors                     *)
(***************************************************************************)
\* the object literal { message: error.message, type: error.type }
Record(message, type) ==
  Graft(Graft(EmptyObject, <<"message">>, Str(message)), <<"type">>, Str(type))

True == Prim("true", "")

\* JavaScript truthiness of the values that occur
Truthy(v) ==
  CASE v[<<>>].kind = "undefined" -> FALSE
    [] v[<<>>].kind = "str" -> v[<<>>].val # ""
    [] OTHER -> TRUE

\* decimal property names of array elements
Dec(i) == <<"0", "1", "2", "3", "4", "5", "6", "7", "8", "9">>[i + 1]

\* the elements of an array value, in index order
Elements(a) == [i \in 1..Cardinality(Keys(a)) |-> Sub(a, <<Dec(i - 1)>>)]

\* the array holding the given values
RECURSIVE ArrayFrom(_, _, _)
ArrayFrom(a, vals, i) ==
  IF i > Len(vals) THEN a ELSE ArrayFrom(Graft(a, <<Dec(i - 1)>>, vals[i]), vals, i + 1)

ArrayOf(vals) == ArrayFrom(Prim("arr", ""), vals, 1)

\* ([] as string[]).concat(a, b): an array argument is spread, any other appended
Concat(a, b) ==
  ArrayOf((IF a[<<>>].kind = "arr" THEN Elements(a) ELSE <<a>>) \o <<b>>)

\* a plain object with string keys, as <<key, value>> pairs in own-property order
OwnKeys(m) == {m[i][1] : i \in 1..Len(m)}

\* m[key]: the own property, else what Object.prototype provides, else undefined
Lookup(m, key) ==
  IF key \in OwnKeys(m) THEN m[CHOOSE i \in 1..Len(m) : m[i][1] = key][2]
  ELSE IF key \in ObjectPrototypeNames THEN Function
  ELSE Undefined

\* m[key] = val: in place for an own property; a new integer-like key goes
\* among the integer-like keys in ascending order, any other new key last
Put(m, key, val) ==
  IF key \in OwnKeys(m)
  THEN [i \in 1..Len(m) |-> IF m[i][1] = key THEN <<key, val>> ELSE m[i]]
  ELSE IF IsIndexKey(key)
  THEN LET before == SelectSeq(m, LAMBDA e : IsIndexKey(e[1]) /\ NumVal(e[1]) < NumVal(key))
           after == SelectSeq(m, LAMBDA e : ~(IsIndexKey(e[1]) /\ NumVal(e[1]) < NumVal(key)))
       IN  before \o <<<<key, val>>>> \o after
  ELSE Append(m, <<key, val>>)

\* react-hook-form's appendErrors:
\*   validateAllFieldCriteria
\*     ? { ...errors[name],
\*         types: { ...(errors[name] && errors[name].types ? errors[name].types : {}),
\*                  [type]: message || true } }
\*     : {}
appendErrors(name, validateAllFieldCriteria, errs, type, message) ==
  IF validateAllFieldCriteria
  THEN LET cur == Lookup(errs, name)
           oldTypes == IF Truthy(cur) /\ Truthy(Prop(cur, "types"))
                       THEN AssignToEmpty(Prop(cur, "types")) ELSE EmptyObject
       IN  Graft(AssignToEmpty(cur), <<"types">>,
                 Graft(oldTypes, <<type>>, IF Truthy(message) THEN message ELSE True))
  ELSE EmptyObject

\* the reduce callback of parseErrorSchema (lines 11-34) for detail d
ReduceOne(prev, validateAllFieldCriteria, d) ==
  LET _path == JoinDot(d.path)
      first == IF ~Truthy(Lookup(prev, _path))
               THEN Put(prev, _path, Record(d.message, d.type)) ELSE prev
  IN  IF validateAllFieldCriteria
      THEN LET types == Prop(Lookup(first, _path), "types")
               messages == IF Truthy(types) THEN Prop(types, d.type) ELSE types
           IN  Put(first, _path,
                   appendErrors(_path, validateAllFieldCriteria, first, d.type,
                                IF Truthy(messages) THEN Concat(messages, Str(d.message))
                                ELSE Str(d.message)))
      ELSE first

RECURSIVE ReduceFrom(_, _, _, _)
ReduceFrom(prev, validateAllFieldCriteria, ds, i) ==
  IF i > Len(ds) THEN prev
  ELSE ReduceFrom(ReduceOne(prev, validateAllFieldCriteria, ds[i]), validateAllFieldCriteria, ds, i + 1)

\* error.details.length ? error.details.reduce(..., {}) : {}
parseErrorSchema(ds, validateAllFieldCriteria) ==
  IF Len(ds) # 0 THEN ReduceFrom(<<>>, validateAllFieldCriteria, ds, 1) ELSE <<>>

(***************************************************************************)
(* The inputs of toNestErrors                                              *)
(***************************************************************************)
\* field paths: up to MaxDepth one-character segments joined by dots
PathPool(depth) ==
  {JoinDot([i \in 1..Len(s) |-> <<s[i]>>]) : s \in UNION {[1..n -> Segs] : n \in 0..depth}}

\* names the form may have registered
NamePool ==
  { <<"a">>, <<"a", ".", "0">>, <<"a", ".", "0", ".", "a">>,
    <<"a", "[", "1", "]">>, <<"a", "0", "a", ".", "0">> }

RecordFor(path) == Record("m:" \o Cat(path), "t")

\* a field descriptor (Field['_f']) of the registry
Descriptor(name) ==
  Graft(Graft(EmptyObject, <<"ref">>, Prim("ref", Cat(name))), <<"name">>, Str(Cat(name)))

\* options.fields as the form library builds it: set(fields, name, field._f)
\* for every registered name, shorter names first
RECURSIVE RegistryOf(_, _)
RegistryOf(tree, names) ==
  IF names = {} THEN tree
  ELSE LET n == CHOOSE x \in names : \A y \in names : Len(x) <= Len(y)
       IN  RegistryOf(set(tree, n, Descriptor(n)), names \ {n})

\* Own-property order of a JavaScript object: integer-like names first and
\* ascending, then the others in insertion order
JsKeyOrder(keys) ==
  \A i, j \in 1..Len(keys) :
    i < j =>
      /\ keys[i] # keys[j]
      /\ IsIndexKey(keys[j]) => IsIndexKey(keys[i]) /\ NumVal(keys[i]) < NumVal(keys[j])

KeyLists(depth, keys) ==
  {s \in UNION {[1..n -> PathPool(depth)] : n \in 0..keys} : JsKeyOrder(s)}

\* options.names is the list of registered names, or absent
OptionsSet(nnames) ==
  {[namesGiven |-> g, names |-> ns, fields |-> RegistryOf(EmptyObject, ns),
    shouldUseNativeValidation |-> nat, criteriaMode |-> "firstError"] :
     g \in BOOLEAN, nat \in BOOLEAN,
     ns \in {x \in SUBSET NamePool : Cardinality(x) <= nnames}}

NoOptions ==
  [namesGiven |-> FALSE, names |-> {}, fields |-> EmptyObject,
   shouldUseNativeValidation |-> FALSE, criteriaMode |-> "firstError"]

ParseIdle ==
  /\ details = <<>> /\ allCriteria = FALSE /\ previous = <<>> /\ dIdx = 1

ResolverIdle ==
  /\ mode = "async" /\ schema = <<>> /\ schemaOptions = <<>> /\ calls = <<>>

(***************************************************************************)
(* toNestErrors as a state machine                                         *)
(***************************************************************************)
NestInitWith(depth, keys, nnames) ==
  /\ \E ks \in KeyLists(depth, keys) :
       errors = [i \in 1..Len(ks) |-> <<ks[i], RecordFor(ks[i])>>]
  /\ options \in OptionsSet(nnames)
  /\ fieldErrors = EmptyObject
  /\ idx = 0
  /\ native = <<>>
  /\ ParseIdle
  /\ ResolverIdle

NestInit == NestInitWith(MaxDepth, MaxKeys, MaxNames)
NestInitWide == NestInitWith(WideDepth, WideKeys, WideNames)

\* lines 16-18: the native validation hook, then the empty result
NestEnter ==
  /\ idx = 0
  /\ native' = native \o NativeCall(0, errors, options)
  /\ fieldErrors' = EmptyObject
  /\ idx' = 1
  /\ UNCHANGED <<errors, options, parseVars, resolverVars>>

\* lines 19-33: one iteration of the loop
NestStep ==
  /\ idx \in 1..Len(errors)
  /\ fieldErrors' = NestOne(fieldErrors, errors, options, errors[idx][1], errors[idx][2])
  /\ idx' = idx + 1
  /\ UNCHANGED <<errors, options, native, parseVars, resolverVars>>

NestNext == NestEnter \/ NestStep

SpecNest == NestInit /\ [][NestNext]_vars
SpecNestWide == NestInitWide /\ [][NestNext]_vars

NestReturned == idx = Len(errors) + 1

(***************************************************************************)
(* Properties of toNestErrors                                              *)
(***************************************************************************)
PathOf(i) == errors[i][1]
ArrayType(path) == isNameInFieldArray(NamesOrKeys(options, errors), path)
KeysOf(path) == KeyPath(PathKeys(path))
RootOf(path) == KeysOf(path) \o <<"root">>

\* the record of entry i as the loop hands it to set: with the ref attached
Expected(i) ==
  LET field == get(options.fields, PathOf(i))
  IN  Graft(errors[i][2], <<"ref">>,
            IF IsUndefined(field) THEN Undefined ELSE Prop(field, "ref"))

\* tree holds every property of record rec at key path p
HoldsAt(tree, p, rec) ==
  \A q \in DOMAIN rec : (p \o q) \in DOMAIN tree /\ tree[p \o q] = rec[q]

\* path is some field followed by "." and a numeric index; the field's length
IndexedSplits(path) ==
  {k \in 0..Len(path) : /\ k + 2 <= Len(path)
                        /\ path[k + 1] = "."
                        /\ AllDigits(SubSeq(path, k + 2, Len(path)))}

\* path q lies strictly below an element p.N of p
IsItemOf(q, p) ==
  \E k \in 1..Len(q) :
    /\ k > Len(p) + 1
    /\ SubSeq(q, 1, Len(p)) = p
    /\ q[Len(p) + 1] = "."
    /\ AllDigits(SubSeq(q, Len(p) + 2, k - 1))
    /\ q[k] = "."
    /\ k < Len(q)

\* C1 (as claimed): once toNestErrors has returned, every path of the mapping
\* that is not matched as an array field has its record at that very path of
\* the tree, whatever other paths the mapping holds.
C1_ErrorAtItsPath ==
  NestReturned =>
    \A i \in 1..Len(errors) :
      ~ArrayType(PathOf(i)) => HoldsAt(fieldErrors, KeysOf(PathOf(i)), Expected(i))

C7_RefAttached ==
  (idx >= 2 /\ idx <= Len(errors) + 1) =>
    LET i == idx - 1
        path == PathOf(i)
        at == IF ArrayType(path) THEN RootOf(path) ELSE KeysOf(path)
        field == get(options.fields, path)
    IN  /\ at \in DOMAIN fieldErrors
        /\ LET placed == Sub(fieldErrors, at)
           IN  /\ Prop(placed, "ref") =
                    (IF <<"ref">> \in DOMAIN field THEN Sub(field, <<"ref">>) ELSE Undefined)
               /\ Prop(placed, "message") = Prop(errors[i][2], "message")
               /\ Prop(placed, "type") = Prop(errors[i][2], "type")

\* a record was placed whose path has a descriptor in the registry, and one
\* whose path has none
C7_Witness ==
  /\ idx >= 3
  /\ \E i \in 1..(idx - 1) : \E j \in 1..(idx - 1) :
       /\ <<"ref">> \in DOMAIN get(options.fields, PathOf(i))
       /\ ~ArrayType(PathOf(i))
       /\ (KeysOf(PathOf(i)) \o <<"ref">>) \in DOMAIN fieldErrors
       /\ fieldErrors[KeysOf(PathOf(i)) \o <<"ref">>].kind = "ref"
       /\ IsUndefined(get(options.fields, PathOf(j)))
       /\ (KeysOf(PathOf(j)) \o <<"ref">>) \in DOMAIN fieldErrors
       /\ fieldErrors[KeysOf(PathOf(j)) \o <<"ref">>].kind = "undefined"

\* C8 (as claimed): once toNestErrors has returned, for every array field P
\* of the mapping with element errors below P.N, the tree holds P's error at
\* P.root and every such element error at its own path.
C8_AggregateAndItems ==
  NestReturned =>
    \A i \in 1..Len(errors) :
      (ArrayType(PathOf(i)) /\ \E j \in 1..Len(errors) : IsItemOf(PathOf(j), PathOf(i))) =>
        /\ HoldsAt(fieldErrors, RootOf(PathOf(i)), Expected(i))
        /\ \A j \in 1..Len(errors) :
             (IsItemOf(PathOf(j), PathOf(i)) /\ ~ArrayType(PathOf(j))) =>
               HoldsAt(fieldErrors, KeysOf(PathOf(j)), Expected(j))

(***************************************************************************)
(* parseErrorSchema as a state machine                                     *)
(***************************************************************************)
\* error paths as Joi reports them: lists of keys.  [] is the root; a key may
\* itself hold a dot; valueOf is also a member of Object.prototype
DetailPaths ==
  { <<>>, <<<<"a">>>>, <<<<"a">>, <<"0">>>>, <<<<"a", ".", "0">>>>,
    <<<<"v", "a", "l", "u", "e", "O", "f">>>> }
Messages == {"", "m1", "m2"}
Types == {"t1", "t2"}

Details == [path : DetailPaths, message : Messages, type : Types]
DetailLists == UNION {[1..n -> Details] : n \in 0..MaxDetails}

NestIdle ==
  /\ errors = <<>> /\ options = NoOptions /\ fieldErrors = EmptyObject /\ idx = 0

ParseInit ==
  /\ details \in DetailLists
  /\ allCriteria \in BOOLEAN
  /\ previous = <<>>
  /\ dIdx = 1
  /\ native = <<>>
  /\ NestIdle
  /\ ResolverIdle

\* one call of the reduce callback
ParseStep ==
  /\ dIdx \in 1..Len(details)
  /\ previous' = ReduceOne(previous, allCriteria, details[dIdx])
  /\ dIdx' = dIdx + 1
  /\ UNCHANGED <<details, allCriteria, native, nestVars, resolverVars>>

ParseNext == ParseStep

SpecParse == ParseInit /\ [][ParseNext]_vars

ParseReturned == dIdx = Len(details) + 1

\* the details reported for joined path k, in order
DetailsFor(k) == SelectSeq(details, LAMBDA d : JoinDot(d.path) = k)

\* what a types entry holds, as a list: a lone value, or an array's elements
AsList(v) == IF v[<<>>].kind = "arr" THEN Elements(v) ELSE <<v>>

\* C5 (as claimed): once parseErrorSchema has returned, the mapping has
\* exactly one key per distinct dot-joined path; its record carries the
\* message and type of the path's first detail; in all-errors mode its types
\* map holds, per error type and in detail order, the message of every
\* detail of the path; otherwise it has no types map.
C5_FlattenedDetails ==
  ParseReturned =>
    /\ OwnKeys(previous) = {JoinDot(details[i].path) : i \in 1..Len(details)}
    /\ \A i, j \in 1..Len(previous) : previous[i][1] = previous[j][1] => i = j
    /\ \A i \in 1..Len(previous) :
         LET k == previous[i][1]
             rec == previous[i][2]
             ds == DetailsFor(k)
         IN  /\ Prop(rec, "message") = Str(ds[1].message)
             /\ Prop(rec, "type") = Str(ds[1].type)
             /\ IF allCriteria
                THEN /\ <<"types">> \in DOMAIN rec
                     /\ Keys(Prop(rec, "types")) = {ds[n].type : n \in 1..Len(ds)}
                     /\ \A t \in Keys(Prop(rec, "types")) :
                          LET ofType == SelectSeq(ds, LAMBDA d : d.type = t)
                          IN  AsList(Prop(Prop(rec, "types"), t)) =
                                [n \in 1..Len(ofType) |-> Str(ofType[n].message)]
                ELSE <<"types">> \notin DOMAIN rec

(***************************************************************************)
(* joiResolver                                                             *)
(***************************************************************************)
Contexts == {"c1", "c2"}
FormValues == {"v1", "v2"}

\* what the validator gives back for valid input: the coerced value
Coerce(v) == "coerced:" \o v

DetailA == [path |-> <<<<"a">>>>, message |-> "m1", type |-> "t1"]
DetailA0 == [path |-> <<<<"a">>, <<"0">>>>, message |-> "m2", type |-> "t2"]
DetailValueOf == [path |-> <<<<"v", "a", "l", "u", "e", "O", "f">>>>, message |-> "m1", type |-> "t1"]

\* What a schema can answer:
\*   ok     the input is valid
\*   verr   a ValidationError with a details list
\*   plain  an error object that is no ValidationError and has no details
\*          (a custom error of the schema, an error of an external rule)
\*   throw  the validation entry point itself throws
Answers ==
  {[kind |-> "ok", details |-> <<>>], [kind |-> "plain", details |-> <<>>],
   [kind |-> "throw", details |-> <<>>]}
  \cup {[kind |-> "verr", details |-> ds] :
          ds \in {<<>>, <<DetailA>>, <<DetailA, DetailA0>>, <<DetailValueOf>>}}

NoResult == [value |-> "undefined", hasError |-> FALSE, hasDetails |-> FALSE, details |-> <<>>]
NoReturn == [values |-> "none", errors |-> Undefined]
IdleCall ==
  [pc |-> "idle", values |-> "none", context |-> "none", passed |-> "none",
   pending |-> NoResult, ret |-> NoReturn]

\* a slip: the context written into the caller's object
AssignContextInPlace(so, context) ==
  [local |-> [so EXCEPT !.context = context], caller |-> [so EXCEPT !.context = context]]

\* line 63: Object.assign({}, schemaOptions, { context }); local is the new
\* object, caller the schemaOptions object as the call leaves it
AssignContext(so, context) ==
  [local |-> [so EXCEPT !.context = context], caller |-> so]

\* line 69: result = schema.validate(values, _schemaOptions)
SyncResult(answer, v) ==
  [value |-> Coerce(v), hasError |-> answer.kind # "ok",
   hasDetails |-> answer.kind = "verr", details |-> answer.details]

\* lines 71-75: result.value = await schema.validateAsync(...), or result.error = e
AsyncResult(answer, v) ==
  [value |-> IF answer.kind = "ok" THEN Coerce(v) ELSE "undefined",
   hasError |-> answer.kind # "ok",
   hasDetails |-> answer.kind = "verr", details |-> answer.details]

\* a slip: the native hook left out of the success path
CompletionNoClear(who, result, opts) ==
  IF result.hasError
  THEN IF ~result.hasDetails
       THEN [pc |-> "rejected", ret |-> NoReturn, native |-> <<>>]
       ELSE LET flat == parseErrorSchema(result.details,
                          ~opts.shouldUseNativeValidation /\ opts.criteriaMode = "all")
            IN  [pc |-> "returned",
                 ret |-> [values |-> "{}", errors |-> toNestErrors(flat, opts)],
                 native |-> NativeCall(who, flat, opts)]
  ELSE [pc |-> "returned",
        ret |-> [values |-> result.value, errors |-> EmptyObject],
        native |-> <<>>]

\* lines 78-97, from the test of result.error to the return.  Reading
\* error.details.length of an error without details throws a TypeError,
\* which rejects the promise of the async function.
Completion(who, result, opts) ==
  IF result.hasError
  THEN IF ~result.hasDetails
       THEN [pc |-> "rejected", ret |-> NoReturn, native |-> <<>>]
       ELSE LET flat == parseErrorSchema(result.details,
                          ~opts.shouldUseNativeValidation /\ opts.criteriaMode = "all")
            IN  [pc |-> "returned",
                 ret |-> [values |-> "{}", errors |-> toNestErrors(flat, opts)],
                 native |-> NativeCall(who, flat, opts)]
  ELSE [pc |-> "returned",
        ret |-> [values |-> result.value, errors |-> EmptyObject],
        native |-> NativeCall(who, <<>>, opts)]

ResolverOptions ==
  {[namesGiven |-> g, names |-> {<<"a", ".", "0">>},
    fields |-> RegistryOf(EmptyObject, {<<"a", ".", "0">>}),
    shouldUseNativeValidation |-> nat, criteriaMode |-> cm] :
     g \in {TRUE}, nat \in BOOLEAN, cm \in {"firstError", "all"}}

DefaultSchemaOptions == [abortEarly |-> FALSE, context |-> "none"]

Init ==
  /\ mode \in {"sync", "async"}
  /\ schema \in [Contexts -> Answers]
  /\ schemaOptions = DefaultSchemaOptions
  /\ options \in ResolverOptions
  /\ calls = [i \in 1..NumCalls |-> IdleCall]
  /\ native = <<>>
  /\ errors = <<>> /\ fieldErrors = EmptyObject /\ idx = 0
  /\ ParseIdle

\* calls are numbered in the order they are made
MayStart(i) == calls[i].pc = "idle" /\ (IF i = 1 THEN TRUE ELSE calls[i - 1].pc # "idle")

\* mode 'sync': the body has no await and runs to its end in one turn
InvokeSync(i) ==
  /\ mode = "sync"
  /\ MayStart(i)
  /\ \E v \in FormValues, c \in Contexts :
       LET a == AssignContext(schemaOptions, c)
           answer == schema[a.local.context]
           result == SyncResult(answer, v)
           done == IF answer.kind = "throw"
                   THEN [pc |-> "rejected", ret |-> NoReturn, native |-> <<>>]
                   ELSE Completion(i, result, options)
       IN  /\ schemaOptions' = a.caller
           /\ calls' = [calls EXCEPT ![i] =
                          [pc |-> done.pc, values |-> v, context |-> c,
                           passed |-> a.local.context,
                           pending |-> IF answer.kind = "throw" THEN NoResult ELSE result,
                           ret |-> done.ret]]
           /\ native' = native \o done.native
  /\ UNCHANGED <<mode, schema, options, errors, fieldErrors, idx, parseVars>>

\* any other mode: the body runs up to the await of validateAsync
InvokeAsync(i) ==
  /\ mode # "sync"
  /\ MayStart(i)
  /\ \E v \in FormValues, c \in Contexts :
       LET a == AssignContext(schemaOptions, c)
       IN  /\ schemaOptions' = a.caller
           /\ calls' = [calls EXCEPT ![i] =
                          [pc |-> "awaiting", values |-> v, context |-> c,
                           passed |-> a.local.context,
                           pending |-> AsyncResult(schema[a.local.context], v),
                           ret |-> NoReturn]]
  /\ UNCHANGED <<mode, schema, options, native, errors, fieldErrors, idx, parseVars>>

\* the promise of validateAsync settles and the body runs to its end
Resume(i) ==
  /\ calls[i].pc = "awaiting"
  /\ LET done == Completion(i, calls[i].pending, options)
     IN  /\ calls' = [calls EXCEPT ![i].pc = done.pc, ![i].ret = done.ret]
         /\ native' = native \o done.native
  /\ UNCHANGED <<mode, schema, schemaOptions, options, errors, fieldErrors, idx, parseVars>>

Next == \E i \in 1..NumCalls : InvokeSync(i) \/ InvokeAsync(i) \/ Resume(i)

Spec == Init /\ [][Next]_vars

(***************************************************************************)
(* Properties of joiResolver                                               *)
(***************************************************************************)
Settled(i) == calls[i].pc \in {"returned", "rejected"}

\* what the schema answers to call i's own context
OwnAnswer(i) == schema[calls[i].context]

\* the flat mapping parseErrorSchema makes of call i's validation error
FlatOf(i) ==
  parseErrorSchema(OwnAnswer(i).details,
                   ~options.shouldUseNativeValidation /\ options.criteriaMode = "all")

\* C3 (as claimed): the promise of an invocation never rejects.
C3_NeverRejects == \A i \in 1..NumCalls : calls[i].pc # "rejected"

\* C4 (as claimed): every invocation that has ended has one of two results:
\* the validator reported no error, errors is empty and values is the
\* validated value; or the validator reported an error, values is the empty
\* object and errors is the tree toNestErrors makes of the flattened error.
C4_TwoResultShapes ==
  \A i \in 1..NumCalls :
    Settled(i) =>
      /\ calls[i].pc = "returned"
      /\ IF OwnAnswer(i).kind = "ok"
         THEN calls[i].ret = [values |-> Coerce(calls[i].values), errors |-> EmptyObject]
         ELSE calls[i].ret = [values |-> "{}", errors |-> toNestErrors(FlatOf(i), options)]

\* the result call i gets when it is the only call ever made
Alone(i) ==
  LET own == AssignContext(DefaultSchemaOptions, calls[i].context)
      answer == schema[own.local.context]
  IN  IF mode = "sync"
      THEN IF answer.kind = "throw"
           THEN [pc |-> "rejected", ret |-> NoReturn, native |-> <<>>]
           ELSE Completion(i, SyncResult(answer, calls[i].values), options)
      ELSE Completion(i, AsyncResult(answer, calls[i].values), options)

\* C6: every call hands the validator its own context; a call that has
\* ended has ended as it would have alone; and the caller's schemaOptions
\* object is as the caller made it.
C6_CallsIndependent ==
  /\ schemaOptions = DefaultSchemaOptions
  /\ \A i \in 1..NumCalls :
       /\ calls[i].pc # "idle" => calls[i].passed = calls[i].context
       /\ Settled(i) => /\ calls[i].pc = Alone(i).pc
                        /\ calls[i].ret = Alone(i).ret

\* two calls with different values and contexts were in flight together and
\* the later one has returned while the earlier still awaits its validator
C6_Witness ==
  /\ NumCalls >= 2
  /\ calls[1].pc = "awaiting"
  /\ calls[2].pc = "returned"
  /\ calls[1].values # calls[2].values
  /\ calls[1].context # calls[2].context
  /\ OwnAnswer(1) # OwnAnswer(2)

\* C9 (as claimed): a call that returns after the validator reported a
\* validation error returns a tree of errors that is not empty.
C9_FailureHasErrors ==
  \A i \in 1..NumCalls :
    (calls[i].pc = "returned" /\ OwnAnswer(i).kind = "verr") =>
      calls[i].ret.errors # EmptyObject

\* the calls of validateFieldsNatively that call i made
NativeBy(i) == SelectSeq(native, LAMBDA n : n.by = i)

\* C10: with shouldUseNativeValidation set, a call that has returned has
\* called validateFieldsNatively exactly once, with the flat mapping of its
\* validation error on failure and with an empty mapping on success;
\* without the option nobody ever calls it.
C10_NativeHookOnce ==
  /\ ~options.shouldUseNativeValidation => native = <<>>
  /\ options.shouldUseNativeValidation =>
       \A i \in 1..NumCalls :
         calls[i].pc = "returned" =>
           /\ Len(NativeBy(i)) = 1
           /\ NativeBy(i)[1].errors =
                (IF OwnAnswer(i).kind = "ok" THEN <<>>
                 ELSE parseErrorSchema(OwnAnswer(i).details, FALSE))

\* a failed pass reported its errors to the hook and a later successful pass
\* reported none
C10_Witness ==
  /\ options.shouldUseNativeValidation
  /\ Len(native) = 2
  /\ native[1].errors # <<>>
  /\ native[2].errors = <<>>
  /\ calls[native[1].by].pc = "returned"
  /\ calls[native[2].by].pc = "returned"
  /\ OwnAnswer(native[2].by).kind = "ok"

====
